---- MODULE Spec2Model ----
(***************************************************************************)
(* Verification model of the DigiFlow scheduler front end.                 *)
(*                                                                         *)
(* Spec      : the operator task page (MachineTaskPage), its query of the  *)
(*             machine queue, its five mutations and the report-issue      *)
(*             modal, against the backend's task state machine.            *)
(* SpecLive  : the page without the modal, with the fairness of the poll   *)
(*             timer and the network.                                      *)
(* SpecHttp  : the API client's request and response interceptors.         *)
(* SpecAuth  : the AuthProvider (login, logout, rehydration) and the       *)
(*             route table of App behind ProtectedRoute.                   *)
(* SpecAdmin : an admin list page (or the operator page's cancel): its     *)
(*             list query, its confirmed requests and the invalidation.    *)
(* SpecImport: the import modal of the machines, production orders and     *)
(*             downtime events pages.                                      *)
(* SpecCache : the downtime events page, its add/edit modal and the list   *)
(*             requests its invalidations put on the network.              *)
(* SpecTime  : the time fields of a downtime event from the form to the    *)
(*             request, the backend and the list, per viewer time zone.    *)
(* SpecDash  : the KPI computation of the dashboard over its data.         *)
(* SpecQueue : the operator page's controls over every queue response.     *)
(***************************************************************************)
EXTENDS Integers, Sequences, FiniteSets, Bags, TLC

\* ------------------------------------------------------------------ bounds
\* Number of scheduled tasks queued on the machine.
NumTasks == 1

\* Number of action requests the network carries at once.
MaxInFlight == 2

TaskIds == 1..NumTasks

\* Number of requests the callers make through the API client.
NumReqs == 2

ReqIds == 1..NumReqs

\* Number of distinct access tokens the backend issues.
NumTokens == 2

Tokens == 1..NumTokens

\* Number of rows the backend holds of the resource an admin page lists.
NumRows == 1

\* Number of days the dates typed into a form are taken from.
NumDays == 1

\* Number of times one downtime event is saved (created, then edited).
MaxSaves == 2

\* Number of machines and of scheduled tasks in the dashboard's data.
NumMachines == 2

NumSched == 2

\* Number of jobs a queue response of the operator page can name.
NumJobs == 2

RowIds == 1..NumRows

\* ------------------------------------------------------------- data shapes
\* OperatorJob | null : a null job is the record with id 0.
NoJob == [id |-> 0, status |-> ""]

\* WaitingInfo | null : step_name 0 stands for null.
NoWaiting == [step_name |-> 0]

Statuses == {"scheduled", "in_progress", "paused", "blocked", "completed", "cancelled"}

\* The action kinds, one per mutation of the page.
Kinds == {"start", "finish", "issue", "pause", "cancel"}

\* The <option> values of the report-issue <select>; "" is "Select a reason...".
Reasons == {"Tool Breakage", "No Material", "Maintenance Needed", "Quality Check Failed"}

ReasonOptions == Reasons \cup {""}

\* String.prototype.toLowerCase on the status strings the backend sends.
ToLowerCase(s) ==
    CASE s = "SCHEDULED"   -> "scheduled"
      [] s = "IN_PROGRESS" -> "in_progress"
      [] s = "PAUSED"      -> "paused"
      [] s = "BLOCKED"     -> "blocked"
      [] s = "COMPLETED"   -> "completed"
      [] s = "CANCELLED"   -> "cancelled"
      [] OTHER             -> s

\* status.replace('_', ' ').toUpperCase(), applied to a lower-cased status.
StatusLabel(s) ==
    CASE s = "scheduled"   -> "SCHEDULED"
      [] s = "in_progress" -> "IN PROGRESS"
      [] s = "paused"      -> "PAUSED"
      [] s = "blocked"     -> "BLOCKED"
      [] s = "completed"   -> "COMPLETED"
      [] s = "cancelled"   -> "CANCELLED"
      [] OTHER             -> s

VARIABLES
    \* backend
    taskStatus,        \* [TaskIds -> Statuses]
    prereqDone,        \* [TaskIds -> BOOLEAN] : the predecessor step is complete
    \* useQuery(['machineQueue', machineIdCode])
    queue,             \* data : the MachineQueue last applied
    hasData,           \* data !== undefined
    qStatus,           \* "pending" | "success" | "error"
    fetch,             \* the query's fetch : [phase, snap, afterStart]
    \* useMutation x 5
    isPending,         \* [Kinds -> BOOLEAN]
    msgs,              \* bag of action requests in flight
    \* component state
    isIssueModalOpen,
    reason,            \* the <select> value of ReportIssueModal
    toast,             \* an error notice is on screen
    \* API client (axios instance and its interceptors)
    storage,           \* localStorage 'accessToken': a token, or 0 when absent
    defaultAuth,       \* apiClient.defaults.headers.common['Authorization']
    location,          \* window.location: "app" or "/login"
    reqs,              \* the requests made through apiClient
    \* AuthProvider and the router
    token,             \* useState token: a token, or 0 for null
    userRole,          \* useState userRole: a role, "undefined", or "null"
    authPhase,         \* "rendered" (first render done) | "ready" (mount effect ran)
    path,              \* the router's location.pathname
    lastOp,            \* the last operation of the AuthProvider and its argument
    \* an admin list page, its list query and its destructive requests
    adminPage,         \* the resource whose list page is mounted
    srvRows,           \* backend: [RowIds -> revision], 0 for a row that is gone
    list,              \* the list query's data : [RowIds -> revision]
    listStatus,        \* "pending" | "success" | "error" : the list query's status
    listFetch,         \* the list query's fetch : [phase, snap, after]
    ops,               \* the delete/update requests in flight
    acked,             \* the delete/update requests whose success the page handled
    notice,            \* the last alert/toast of the page
    prompt,            \* the answer the last window.confirm got
    \* the import modal of an admin list page
    isImportModalOpen,
    file,              \* the name of the file selected in the modal: "" for none
    importError,       \* the modal's error line: "" when it shows none
    importCall,        \* the import request: "none" | "sent" | "ok" | "failed"
    \* the add/edit modal of the downtime events page
    isAddModalOpen,
    saveCall,          \* the create/update request: "none" | "sent" | "ok" | "failed"
    netOrphans,        \* list requests of cancelled fetches still on the network
    \* the times of a downtime event, from the form to the list
    tz,                \* [viewer, server]: the zones' offsets from UTC in minutes
    form,              \* the modal's form: isEditing, initialData, start_time, end_time
    payload,           \* the create/update request's body, NoEvent when none is out
    event,             \* the event as GET /api/downtimes/ returns it
    shown,             \* the event's row as the list renders it
    \* the dashboard
    data,              \* useQuery(['dashboardData']).data, NoData for undefined
    kpiMetrics         \* the memoized KPI record

pageVars == <<taskStatus, prereqDone, queue, hasData, qStatus, fetch,
              isPending, msgs, isIssueModalOpen, reason, toast>>

httpVars == <<storage, defaultAuth, location, reqs>>

authVars == <<token, userRole, authPhase, path, lastOp>>

adminVars == <<adminPage, srvRows, list, listStatus, listFetch, ops, acked, notice, prompt>>

importVars == <<isImportModalOpen, file, importError, importCall>>

saveVars == <<isAddModalOpen, saveCall, netOrphans>>

timeVars == <<tz, form, payload, event, shown>>

dashVars == <<data, kpiMetrics>>

extVars == <<importVars, saveVars, timeVars, dashVars>>

appVars == <<authVars, adminVars, extVars>>

vars == <<pageVars, httpVars, appVars>>

srvVars == <<taskStatus, prereqDone>>

queryVars == <<queue, hasData, qStatus, fetch>>

modalVars == <<isIssueModalOpen, reason>>

\* ------------------------------------------------------------- the backend
Min(S) == CHOOSE x \in S : \A y \in S : x <= y

ActiveStatuses == {"in_progress", "paused", "blocked"}

\* GET /api/operators/{machineIdCode}/queue
ServerQueue ==
    LET active == {t \in TaskIds : taskStatus[t] \in ActiveStatuses}
        cur    == IF active = {} THEN 0 ELSE Min(active)
        cand   == {t \in TaskIds : taskStatus[t] = "scheduled"}
        nxt    == IF cand = {} THEN 0 ELSE Min(cand)
        ready  == nxt # 0 /\ prereqDone[nxt]
    IN  [current_job |-> IF cur = 0 THEN NoJob
                         ELSE [id |-> cur, status |-> taskStatus[cur]],
         next_task_in_sequence |-> IF nxt = 0 THEN NoJob
                                   ELSE [id |-> nxt, status |-> taskStatus[nxt]],
         is_next_task_ready |-> ready,
         waiting_for |-> IF nxt # 0 /\ ~ready THEN [step_name |-> nxt] ELSE NoWaiting]

\* POST /api/scheduled-tasks/{id}/{start|finish|pause|cancel|report-issue}
Accepts(kind, id) ==
    CASE kind = "start"  -> /\ taskStatus[id] \in {"scheduled", "paused", "blocked"}
                            /\ taskStatus[id] = "scheduled" => prereqDone[id]
                            /\ \A t \in TaskIds \ {id} : taskStatus[t] \notin ActiveStatuses
      [] kind = "pause"  -> taskStatus[id] = "in_progress"
      [] kind = "finish" -> taskStatus[id] = "in_progress"
      [] kind = "issue"  -> taskStatus[id] \in ActiveStatuses
      [] kind = "cancel" -> taskStatus[id] \in {"paused", "blocked"}

StatusAfter(kind) ==
    CASE kind = "start"  -> "in_progress"
      [] kind = "pause"  -> "paused"
      [] kind = "finish" -> "completed"
      [] kind = "issue"  -> "blocked"
      [] kind = "cancel" -> "cancelled"

EmptyQueue ==
    [current_job |-> NoJob, next_task_in_sequence |-> NoJob,
     is_next_task_ready |-> FALSE, waiting_for |-> NoWaiting]

\* A fetch of the query. afterStart is the id of the task whose accepted
\* START JOB made the page request this fetch, and 0 for every other fetch.
IdleFetch == [phase |-> "idle", snap |-> EmptyQueue, afterStart |-> 0]

NewFetch(started) == [phase |-> "sent", snap |-> EmptyQueue, afterStart |-> started]

\* ------------------------------------------------------------------- Init
\* The page has just mounted: useQuery has no data and its first fetch is out.
PageInit ==
    /\ taskStatus = [t \in TaskIds |-> "scheduled"]
    /\ prereqDone \in [TaskIds -> BOOLEAN]
    /\ queue = EmptyQueue
    /\ hasData = FALSE
    /\ qStatus = "pending"
    /\ fetch = NewFetch(0)
    /\ isPending = [k \in Kinds |-> FALSE]
    /\ msgs = EmptyBag
    /\ isIssueModalOpen = FALSE
    /\ reason = ""
    /\ toast = FALSE

\* A request slot of the API client that no caller has used yet.
NewReq ==
    [url |-> "", phase |-> "new", status |-> 0, retry |-> FALSE, auth |-> 0,
     refreshes |-> 0, sends |-> 0, rtoken |-> 0, outcome |-> "", via |-> 0]

\* The API client with nothing in flight; the user may hold a token already.
HttpInit ==
    /\ storage \in {0, 1}
    /\ defaultAuth = 0
    /\ location = "app"
    /\ reqs = [r \in ReqIds |-> NewReq]

\* No operation of the AuthProvider has run yet.
NoOp == [op |-> "mount", arg |-> 0, before |-> 0]

\* The list query has no fetch in flight.
IdleListFetch == [phase |-> "idle", snap |-> [i \in RowIds |-> 0], after |-> {}]

\* The idle admin page beside the operator page and the API client.
AdminIdle ==
    /\ adminPage = "machines"
    /\ srvRows = [i \in RowIds |-> 1]
    /\ list = [i \in RowIds |-> 1]
    /\ listStatus = "success"
    /\ listFetch = IdleListFetch
    /\ ops = {} /\ acked = {} /\ notice = "none" /\ prompt = "none"

\* The empty datetime-local field and the absent timestamp.
NoWall == [d |-> 0, h |-> 0, m |-> 0]

NoIso == [d |-> 0, h |-> 0, m |-> 0, off |-> 0]

\* No event: n counts the saves an event went through, typed is what the form
\* held when it was submitted, loaded the timestamps the edit form was given.
NoEvent == [n |-> 0, typed |-> <<NoWall, NoWall>>, loaded |-> <<NoIso, NoIso>>,
            start |-> NoIso, end |-> NoIso]

\* The modal's form after reset().
EmptyForm == [isEditing |-> FALSE, initialData |-> NoEvent,
              start_time |-> NoWall, end_time |-> NoWall]

\* The dashboard data before the query has any.
NoData == [loaded |-> FALSE, machines |-> <<>>, scheduledTasks |-> <<>>]

\* The modals and forms of the admin pages at rest: no modal is open.
ExtIdle ==
    /\ isImportModalOpen = FALSE /\ file = ""
    /\ importError = "" /\ importCall = "none"
    /\ isAddModalOpen = FALSE /\ saveCall = "none" /\ netOrphans = 0
    /\ tz = [viewer |-> 0, server |-> 0]
    /\ form = EmptyForm /\ payload = NoEvent /\ event = NoEvent /\ shown = NoEvent
    /\ data = NoData /\ kpiMetrics = [utilization |-> 0, jobsInProgress |-> 0]

\* The AuthProvider, the router and the admin page at rest, no session.
AppIdle ==
    /\ token = 0 /\ userRole = "null" /\ authPhase = "ready"
    /\ path = "/operator/task/M1" /\ lastOp = NoOp
    /\ AdminIdle
    /\ ExtIdle

Init ==
    /\ PageInit
    /\ storage = 1 /\ defaultAuth = 0 /\ location = "app"
    /\ reqs = [r \in ReqIds |-> NewReq]
    /\ AppIdle

\* ----------------------------------------------------- the query of the queue
\* The backend serves the queue request with its current projection.
ServeFetchOk ==
    /\ fetch.phase = "sent"
    /\ fetch' = [fetch EXCEPT !.phase = "ok", !.snap = ServerQueue]
    /\ UNCHANGED <<srvVars, queue, hasData, qStatus, isPending, msgs, modalVars, toast, httpVars, appVars>>

\* The response reaches the query: data and status are replaced.
ApplyFetch ==
    /\ fetch.phase = "ok"
    /\ queue' = fetch.snap
    /\ hasData' = TRUE
    /\ qStatus' = "success"
    /\ fetch' = IdleFetch
    /\ UNCHANGED <<srvVars, isPending, msgs, modalVars, toast, httpVars, appVars>>

\* The queue request fails (network error or error response) and the query
\* reports the error: isError. The error screen replaces the page, so the
\* ReportIssueModal unmounts and loses its selection.
FetchFails ==
    /\ fetch.phase = "sent"
    /\ qStatus' = "error"
    /\ fetch' = IdleFetch
    /\ reason' = ""
    /\ UNCHANGED <<srvVars, queue, hasData, isPending, msgs, isIssueModalOpen, toast, httpVars, appVars>>

\* Mutant of PollTick: the query has no refetchInterval.
PollNever == FALSE /\ UNCHANGED vars

\* refetchInterval: 15000. A tick while a fetch is in flight joins that fetch.
PollTick ==
    /\ fetch.phase = "idle"
    /\ fetch' = NewFetch(0)
    /\ UNCHANGED <<srvVars, queue, hasData, qStatus, isPending, msgs, modalVars, toast, httpVars, appVars>>

\* ------------------------------------------------------------ the rendering
\* Neither the loading, the error nor the "No data available" screen.
Rendered == qStatus # "pending" /\ qStatus # "error" /\ hasData

IsNull(job) == job.id = 0

\* const jobToDisplay = current_job || next_task_in_sequence
JobToDisplay(q) ==
    IF ~IsNull(q.current_job) THEN q.current_job ELSE q.next_task_in_sequence

\* The status line of <main>.
StatusLine(q) ==
    IF IsNull(JobToDisplay(q)) THEN "NO JOBS READY FOR THIS MACHINE"
    ELSE IF ~IsNull(q.current_job) THEN StatusLabel(ToLowerCase(q.current_job.status))
    ELSE IF q.is_next_task_ready THEN "UP NEXT"
    ELSE "WAITING"

\* The "Cannot Start Job" box: 0 when it is not shown, else the step it names.
WaitingBox(q) ==
    IF ~q.is_next_task_ready /\ q.waiting_for.step_name # 0 /\ IsNull(q.current_job)
    THEN q.waiting_for.step_name
    ELSE 0

\* Mutant of Control: the button ignores isPending.
ControlNeverDisabled(ctl, kind, id) ==
    [ctl |-> ctl, kind |-> kind, id |-> id, disabled |-> FALSE]

\* Mutant of Control: a button also stays disabled while the queue is refetched.
ControlWaitsForRefetch(ctl, kind, id) ==
    [ctl |-> ctl, kind |-> kind, id |-> id,
     disabled |-> isPending[kind] \/ fetch.phase # "idle"]

Control(ctl, kind, id) ==
    [ctl |-> ctl, kind |-> kind, id |-> id, disabled |-> isPending[kind]]

\* Mutant of Footer: PAUSE and FINISH stay on screen for a paused job.
FooterPauseWhenPaused(q) ==
    LET status == IF IsNull(q.current_job) THEN "" ELSE ToLowerCase(q.current_job.status)
    IN  IF status = "in_progress" \/ status = "paused"
        THEN {Control("PAUSE", "pause", q.current_job.id),
              Control("FINISH", "finish", q.current_job.id)}
        ELSE IF status = "blocked"
        THEN {Control("REPORT ISSUE", "issue", q.current_job.id),
              Control("CANCEL", "cancel", q.current_job.id),
              Control("RESUME", "start", q.current_job.id)}
        ELSE IF ~IsNull(q.next_task_in_sequence) /\ q.is_next_task_ready
        THEN {Control("START JOB", "start", q.next_task_in_sequence.id)}
        ELSE {}

\* Mutant of Footer: START JOB is offered for a next task that is not ready.
FooterIgnoresReady(q) ==
    LET status == IF IsNull(q.current_job) THEN "" ELSE ToLowerCase(q.current_job.status)
    IN  IF status = "in_progress"
        THEN {Control("PAUSE", "pause", q.current_job.id),
              Control("FINISH", "finish", q.current_job.id)}
        ELSE IF status = "paused" \/ status = "blocked"
        THEN {Control("REPORT ISSUE", "issue", q.current_job.id),
              Control("CANCEL", "cancel", q.current_job.id),
              Control("RESUME", "start", q.current_job.id)}
        ELSE IF ~IsNull(q.next_task_in_sequence)
        THEN {Control("START JOB", "start", q.next_task_in_sequence.id)}
        ELSE {}

\* The buttons of <footer>.
Footer(q) ==
    LET status == IF IsNull(q.current_job) THEN "" ELSE ToLowerCase(q.current_job.status)
    IN  IF status = "in_progress"
        THEN {Control("PAUSE", "pause", q.current_job.id),
              Control("FINISH", "finish", q.current_job.id)}
        ELSE IF status = "paused" \/ status = "blocked"
        THEN {Control("REPORT ISSUE", "issue", q.current_job.id),
              Control("CANCEL", "cancel", q.current_job.id),
              Control("RESUME", "start", q.current_job.id)}
        ELSE IF ~IsNull(q.next_task_in_sequence) /\ q.is_next_task_ready
        THEN {Control("START JOB", "start", q.next_task_in_sequence.id)}
        ELSE {}

\* What the page offers: nothing on the loading and error screens.
Offered == IF Rendered THEN Footer(queue) ELSE {}

\* ------------------------------------------------------------ the mutations
\* A request of one mutation: the control that sent it, its task id, its body.
Msg(ctl, kind, id, r) ==
    [ctl |-> ctl, kind |-> kind, id |-> id, reason |-> r, phase |-> "sent"]

InFlight(kind) == {m \in BagToSet(msgs) : m.kind = kind}

\* mutation.mutate(variables): the request leaves and isPending becomes true.
Mutate(ctl, kind, id, r) ==
    /\ BagCardinality(msgs) < MaxInFlight
    /\ msgs' = msgs (+) SetToBag({Msg(ctl, kind, id, r)})
    /\ isPending' = [isPending EXCEPT ![kind] = TRUE]

\* The mutation settles: isPending falls with the last request of its kind.
Settle(m) ==
    /\ msgs' = msgs (-) SetToBag({m})
    /\ isPending' = [isPending EXCEPT ![m.kind] =
                        \E o \in BagToSet(msgs (-) SetToBag({m})) : o.kind = m.kind]

\* Mutant of InvalidateQueue: the key is forgotten and nothing is refetched.
InvalidateQueueNoRefetch(started) == fetch

\* queryClient.invalidateQueries({ queryKey: ['machineQueue', machineIdCode] }):
\* a fetch in flight is cancelled and a new one starts (a first load is joined).
InvalidateQueue(started) ==
    IF fetch.phase # "idle" /\ ~hasData THEN fetch ELSE NewFetch(started)

\* onSuccess: invalidateQueue
OnSuccess(m) ==
    /\ fetch' = InvalidateQueue(IF m.ctl = "START JOB" THEN m.id ELSE 0)
    /\ UNCHANGED toast

\* Mutant of OnError: a failure refetches the queue like a success.
OnErrorInvalidates(m) == toast' = TRUE /\ fetch' = InvalidateQueue(0)

\* onError: toast.error(e.response?.data?.detail || "Failed to ... task.")
OnError(m) == toast' = TRUE /\ UNCHANGED fetch

ClickPause ==
    /\ \E c \in Offered : c.ctl = "PAUSE" /\ ~c.disabled /\ Mutate("PAUSE", "pause", c.id, "")
    /\ UNCHANGED <<srvVars, queryVars, modalVars, toast, httpVars, appVars>>

ClickFinish ==
    /\ \E c \in Offered : c.ctl = "FINISH" /\ ~c.disabled /\ Mutate("FINISH", "finish", c.id, "")
    /\ UNCHANGED <<srvVars, queryVars, modalVars, toast, httpVars, appVars>>

\* window.confirm('Are you sure you want to cancel this job?')
ClickCancel ==
    /\ \E c \in Offered, confirmed \in BOOLEAN :
          /\ c.ctl = "CANCEL" /\ ~c.disabled
          /\ IF confirmed THEN Mutate("CANCEL", "cancel", c.id, "") ELSE UNCHANGED <<msgs, isPending>>
    /\ UNCHANGED <<srvVars, queryVars, modalVars, toast, httpVars, appVars>>

ClickResume ==
    /\ \E c \in Offered : c.ctl = "RESUME" /\ ~c.disabled /\ Mutate("RESUME", "start", c.id, "")
    /\ UNCHANGED <<srvVars, queryVars, modalVars, toast, httpVars, appVars>>

ClickStart ==
    /\ \E c \in Offered : c.ctl = "START JOB" /\ ~c.disabled /\ Mutate("START JOB", "start", c.id, "")
    /\ UNCHANGED <<srvVars, queryVars, modalVars, toast, httpVars, appVars>>

\* REPORT ISSUE: setIssueModalOpen(true)
ClickReportIssue ==
    /\ \E c \in Offered : c.ctl = "REPORT ISSUE" /\ ~c.disabled
    /\ isIssueModalOpen' = TRUE
    /\ UNCHANGED <<srvVars, queryVars, isPending, msgs, reason, toast, httpVars, appVars>>

\* ---------------------------------------------------- the report-issue modal
ModalShown == Rendered /\ isIssueModalOpen

\* <select onChange={(e) => setReason(e.target.value)}>
SelectReason ==
    /\ ModalShown
    /\ \E r \in ReasonOptions : r # reason /\ reason' = r
    /\ UNCHANGED <<srvVars, queryVars, isPending, msgs, isIssueModalOpen, toast, httpVars, appVars>>

\* The modal's Cancel button: onClose.
ModalClose ==
    /\ ModalShown
    /\ isIssueModalOpen' = FALSE
    /\ UNCHANGED <<srvVars, queryVars, isPending, msgs, reason, toast, httpVars, appVars>>

\* Mutant of HandleReportIssue: the guard on current_job and reason is gone.
HandleReportIssueUnchecked(r) ==
    /\ Mutate("Submit Report", "issue", queue.current_job.id, r)
    /\ isIssueModalOpen' = FALSE

HandleReportIssue(r) ==
    /\ IF ~IsNull(queue.current_job) /\ r # ""
       THEN Mutate("Submit Report", "issue", queue.current_job.id, r)
       ELSE UNCHANGED <<msgs, isPending>>
    /\ isIssueModalOpen' = FALSE

\* Submit Report: disabled={!reason}, onClick={() => onSubmit(reason)}
SubmitDisabled == reason = ""

ModalSubmit ==
    /\ ModalShown
    /\ ~SubmitDisabled
    /\ HandleReportIssue(reason)
    /\ UNCHANGED <<srvVars, queryVars, reason, toast, httpVars, appVars>>

\* ------------------------------------------- the requests at the backend
Respond(m, phase) ==
    msgs' = (msgs (-) SetToBag({m})) (+) SetToBag({[m EXCEPT !.phase = phase]})

ServerAccept ==
    \E m \in BagToSet(msgs) :
        /\ m.phase = "sent"
        /\ Accepts(m.kind, m.id)
        /\ taskStatus' = [taskStatus EXCEPT ![m.id] = StatusAfter(m.kind)]
        /\ Respond(m, "ok")
        /\ UNCHANGED <<prereqDone, queryVars, isPending, modalVars, toast, httpVars, appVars>>

\* A predecessor step completes on another machine.
PrereqCompletes ==
    \E t \in TaskIds :
        /\ taskStatus[t] = "scheduled" /\ ~prereqDone[t]
        /\ prereqDone' = [prereqDone EXCEPT ![t] = TRUE]
        /\ UNCHANGED <<taskStatus, queryVars, isPending, msgs, modalVars, toast, httpVars, appVars>>

\* ------------------------------------------------- the responses at the page
\* Mutant of MutationSuccess: the page updates the displayed status itself.
MutationSuccessOptimistic ==
    \E m \in BagToSet(msgs) :
        /\ m.phase = "ok"
        /\ Settle(m)
        /\ OnSuccess(m)
        /\ queue' = IF queue.current_job.id = m.id
                    THEN [queue EXCEPT !.current_job.status = StatusAfter(m.kind)]
                    ELSE [queue EXCEPT !.current_job = [id |-> m.id, status |-> StatusAfter(m.kind)]]
        /\ UNCHANGED <<srvVars, hasData, qStatus, modalVars, httpVars, appVars>>

MutationSuccess ==
    \E m \in BagToSet(msgs) :
        /\ m.phase = "ok"
        /\ Settle(m)
        /\ OnSuccess(m)
        /\ UNCHANGED <<srvVars, queue, hasData, qStatus, modalVars, httpVars, appVars>>

\* The request fails, refused by the backend or lost on the network, and the
\* failure reaches its mutation.
MutationError ==
    \E m \in BagToSet(msgs) :
        /\ m.phase = "sent"
        /\ Settle(m)
        /\ OnError(m)
        /\ UNCHANGED <<srvVars, queue, hasData, qStatus, modalVars, httpVars, appVars>>

\* The toast disappears.
DismissToast ==
    /\ toast
    /\ toast' = FALSE
    /\ UNCHANGED <<srvVars, queryVars, isPending, msgs, modalVars, httpVars, appVars>>

\* ============================================================ the API client
\* The URLs the callers pass to apiClient: a resource and the login form.
Urls == {"/api/orders/", "/api/user/login"}

\* originalRequest.url.includes('/auth/refresh')
IncludesAuthRefresh(url) == url \in {"/api/auth/refresh"}

\* originalRequest.url.includes('/auth/login')
IncludesAuthLogin(url) == url \in {"/api/auth/login"}

\* 0 stands for a request that got no response (error.response is undefined).
HttpStatuses == {200, 401, 500, 0}

\* Request interceptor: the stored token, when there is one, is the bearer.
RequestInterceptor(stored, header) == IF stored # 0 THEN stored ELSE header

\* A caller calls apiClient.get/post(url): the interceptor runs, the request leaves.
Issue(r) ==
    /\ reqs[r].phase = "new"
    /\ \E url \in Urls :
          reqs' = [reqs EXCEPT ![r] = [NewReq EXCEPT
                      !.url = url, !.phase = "sent", !.sends = 1,
                      !.auth = RequestInterceptor(storage, defaultAuth)]]
    /\ UNCHANGED <<pageVars, appVars, storage, defaultAuth, location>>

\* The backend (or the network) answers the request.
Answer(r) ==
    /\ reqs[r].phase = "sent"
    /\ \E st \in HttpStatuses :
          reqs' = [reqs EXCEPT ![r].phase = "answered", ![r].status = st]
    /\ UNCHANGED <<pageVars, appVars, storage, defaultAuth, location>>

\* Mutant of ShouldRefresh: the _retry flag is not consulted.
ShouldRefreshIgnoringRetry(q) ==
    /\ q.status = 401
    /\ ~IncludesAuthRefresh(q.url)
    /\ ~IncludesAuthLogin(q.url)

\* The condition under which the response interceptor refreshes the token.
ShouldRefresh(q) ==
    /\ q.status = 401
    /\ ~q.retry
    /\ ~IncludesAuthRefresh(q.url)
    /\ ~IncludesAuthLogin(q.url)

\* What the caller's promise settles with for a response status.
OutcomeOf(st) == IF st = 200 THEN "data" ELSE IF st = 401 THEN "error401" ELSE "error"

\* Response interceptor: pass a response on, refresh on a first 401, or reject.
HandleResponse(r) ==
    /\ reqs[r].phase = "answered"
    /\ IF reqs[r].status # 200 /\ ShouldRefresh(reqs[r])
       THEN reqs' = [reqs EXCEPT ![r].retry = TRUE, ![r].phase = "refreshing",
                                 ![r].refreshes = @ + 1]
       ELSE reqs' = [reqs EXCEPT ![r].phase = "done",
                                 ![r].outcome = OutcomeOf(reqs[r].status),
                                 ![r].via = reqs[r].sends]
    /\ UNCHANGED <<pageVars, appVars, storage, defaultAuth, location>>

\* POST /api/auth/refresh is answered: a new access token, or a failure (0).
AnswerRefresh(r) ==
    /\ reqs[r].phase = "refreshing"
    /\ \E t \in Tokens \cup {0} :
          reqs' = [reqs EXCEPT ![r].phase = "refreshed", ![r].rtoken = t]
    /\ UNCHANGED <<pageVars, appVars, storage, defaultAuth, location>>

\* Mutant of RefreshSucceeded: the new token is not written to localStorage.
RefreshSucceededNoStore(r) ==
    /\ reqs[r].phase = "refreshed"
    /\ reqs[r].rtoken # 0
    /\ defaultAuth' = reqs[r].rtoken
    /\ reqs' = [reqs EXCEPT ![r].phase = "sent", ![r].status = 0, ![r].sends = @ + 1,
                            ![r].auth = RequestInterceptor(storage, reqs[r].rtoken)]
    /\ UNCHANGED <<pageVars, appVars, storage, location>>

\* try: store the new token, set the headers, replay the original request.
RefreshSucceeded(r) ==
    /\ reqs[r].phase = "refreshed"
    /\ reqs[r].rtoken # 0
    /\ storage' = reqs[r].rtoken
    /\ defaultAuth' = reqs[r].rtoken
    /\ reqs' = [reqs EXCEPT ![r].phase = "sent", ![r].status = 0, ![r].sends = @ + 1,
                            ![r].auth = RequestInterceptor(storage', reqs[r].rtoken)]
    /\ UNCHANGED <<pageVars, appVars, location>>

\* Mutant of RefreshFailed: only the token the request was sent with is dropped;
\* a token stored since by another request's refresh is kept.
RefreshFailedKeepsFresh(r) ==
    /\ reqs[r].phase = "refreshed"
    /\ reqs[r].rtoken = 0
    /\ storage' = IF storage = reqs[r].auth THEN 0 ELSE storage
    /\ location' = "/login"
    /\ reqs' = [reqs EXCEPT ![r].phase = "done", ![r].outcome = "refreshError",
                            ![r].via = 0]
    /\ UNCHANGED <<pageVars, appVars, defaultAuth>>

\* Mutant of RefreshFailed: the stored token survives the failed refresh.
RefreshFailedKeepsToken(r) ==
    /\ reqs[r].phase = "refreshed"
    /\ reqs[r].rtoken = 0
    /\ location' = "/login"
    /\ reqs' = [reqs EXCEPT ![r].phase = "done", ![r].outcome = "refreshError",
                            ![r].via = 0]
    /\ UNCHANGED <<pageVars, appVars, storage, defaultAuth>>

\* catch: drop the stored token, go to /login, reject with the refresh error.
RefreshFailed(r) ==
    /\ reqs[r].phase = "refreshed"
    /\ reqs[r].rtoken = 0
    /\ storage' = 0
    /\ location' = "/login"
    /\ reqs' = [reqs EXCEPT ![r].phase = "done", ![r].outcome = "refreshError",
                            ![r].via = 0]
    /\ UNCHANGED <<pageVars, appVars, defaultAuth>>

NextHttp ==
    \/ \E r \in ReqIds : Issue(r)
    \/ \E r \in ReqIds : Answer(r)
    \/ \E r \in ReqIds : HandleResponse(r)
    \/ \E r \in ReqIds : AnswerRefresh(r)
    \/ \E r \in ReqIds : RefreshSucceeded(r)
    \/ \E r \in ReqIds : RefreshFailed(r)

\* The API client starts idle beside a freshly mounted page whose tasks are ready.
InitHttp == PageInit /\ HttpInit /\ AppIdle /\ \A t \in TaskIds : prereqDone[t]

SpecHttp == InitHttp /\ [][NextHttp]_vars

Next ==
    \/ ServeFetchOk
    \/ FetchFails
    \/ ApplyFetch
    \/ PollTick
    \/ ClickPause
    \/ ClickFinish
    \/ ClickCancel
    \/ ClickResume
    \/ ClickStart
    \/ ClickReportIssue
    \/ SelectReason
    \/ ModalClose
    \/ ModalSubmit
    \/ ServerAccept
    \/ PrereqCompletes
    \/ MutationSuccess
    \/ MutationError
    \/ DismissToast

Spec == Init /\ [][Next]_vars

\* The page without its report-issue modal: the query, the footer's buttons,
\* the requests and the backend. REPORT ISSUE is offered only beside a paused
\* or blocked current job, never while the page shows WAITING or UP NEXT.
NextLive ==
    \/ ServeFetchOk
    \/ FetchFails
    \/ ApplyFetch
    \/ PollTick
    \/ ClickPause
    \/ ClickFinish
    \/ ClickCancel
    \/ ClickResume
    \/ ClickStart
    \/ ServerAccept
    \/ PrereqCompletes
    \/ MutationSuccess
    \/ MutationError
    \/ DismissToast

\* The poll timer fires, the network eventually answers the queue request with
\* success, and an answer that arrived is applied.
SpecLive ==
    /\ Init /\ [][NextLive]_vars
    /\ WF_vars(PollTick)
    /\ SF_vars(ServeFetchOk)
    /\ WF_vars(ApplyFetch)

\* ================================================ the AuthProvider and router
\* The access tokens a login response or localStorage may hold.
AdminJwt == 101
ManagerJwt == 102
OperatorJwt == 103
\* A well-formed JWT whose payload has no role claim.
NoRoleJwt == 104
\* A string that is not a JWT.
Garbage == 105
\* The token of a user created with the role "user" of the user form.
UserJwt == 106

AuthTokens == {AdminJwt, ManagerJwt, OperatorJwt, UserJwt, NoRoleJwt, Garbage}

\* jwtDecode(t): the payload of a well-formed token; it throws (ok = FALSE) on
\* anything else. A payload without a role claim has role undefined.
JwtDecode(t) ==
    CASE t = AdminJwt    -> [ok |-> TRUE, role |-> "admin"]
      [] t = ManagerJwt  -> [ok |-> TRUE, role |-> "manager"]
      [] t = OperatorJwt -> [ok |-> TRUE, role |-> "operator"]
      [] t = UserJwt     -> [ok |-> TRUE, role |-> "user"]
      [] t = NoRoleJwt   -> [ok |-> TRUE, role |-> "undefined"]
      [] OTHER           -> [ok |-> FALSE, role |-> "undefined"]

\* const isAuthenticated = !!token
isAuthenticated == token # 0

\* The paths a user visits: the two login screens, two admin pages, the two
\* operator pages and a path no route names.
Paths == {"/login", "/operator/login", "/dashboard", "/machines",
          "/operator/select-machine", "/operator/task/M1", "/nowhere"}

\* The <Route path> entries of MainLayout.
AdminRoutes == {"/dashboard", "/analytics", "/production-orders", "/schedule", "/job-log",
                "/machines", "/processes", "/downtime-events", "/users"}

\* The <Route path> entries of the operator's <Routes>.
OperatorRoutes == {"/operator/select-machine", "/operator/task/M1"}

Show(screen) == [kind |-> "screen", to |-> screen]

Go(to) == [kind |-> "redirect", to |-> to]

\* MainLayout: the admin pages; any other path goes to the dashboard.
MainLayout(p) == IF p \in AdminRoutes THEN Show(p) ELSE Go("/dashboard")

\* The operator's routes; any other path goes to machine selection.
OperatorLayout(p) == IF p \in OperatorRoutes THEN Show(p) ELSE Go("/operator/select-machine")

\* Mutant of ProtectedRoute: the children are rendered without a session.
ProtectedRouteOpen(auth, children) == children

\* ProtectedRoute: <Navigate to="/login" /> unless authenticated.
ProtectedRoute(auth, children) == IF ~auth THEN Go("/login") ELSE children

\* Mutant of Route: every role but operator gets the admin layout.
RouteAdminByDefault(p, auth, role) ==
    IF p = "/login"
    THEN IF ~auth THEN Show("LoginPage") ELSE Go("/dashboard")
    ELSE IF p = "/operator/login"
    THEN IF ~auth THEN Show("OperatorLogin") ELSE Go("/operator/select-machine")
    ELSE ProtectedRoute(auth,
            IF role = "operator" THEN OperatorLayout(p) ELSE MainLayout(p))

\* App: what the router renders at path p for a session (auth, role).
Route(p, auth, role) ==
    IF p = "/login"
    THEN IF ~auth THEN Show("LoginPage") ELSE Go("/dashboard")
    ELSE IF p = "/operator/login"
    THEN IF ~auth THEN Show("OperatorLogin") ELSE Go("/operator/select-machine")
    ELSE ProtectedRoute(auth,
            IF role \in {"admin", "manager"} THEN MainLayout(p)
            ELSE IF role = "operator" THEN OperatorLayout(p)
            ELSE Show("blank"))

Rendering == Route(path, isAuthenticated, userRole)

\* The screens behind the gate: the admin layout's pages and the operator pages.
ProtectedScreens == AdminRoutes \cup OperatorRoutes

\* The screens that carry a logout button: the Sidebar of MainLayout and the
\* machine selection page.
LogoutScreens == AdminRoutes \cup {"/operator/select-machine"}

\* The app is running: no full page load is pending.
Running == location = "app"

\* Mutant of Logout: the stored token is left in localStorage.
LogoutKeepsStorage ==
    /\ token' = 0
    /\ userRole' = "null"
    /\ location' = "/login"
    /\ UNCHANGED storage

\* logout(): clear token and role, remove the stored token, load /login.
Logout ==
    /\ token' = 0
    /\ userRole' = "null"
    /\ storage' = 0
    /\ location' = "/login"

\* Mutant of Login: the token is kept in memory only.
LoginNoStore(newToken) ==
    LET decoded == JwtDecode(newToken) IN
    IF decoded.ok
    THEN /\ token' = newToken
         /\ userRole' = decoded.role
         /\ UNCHANGED storage
    ELSE UNCHANGED <<token, userRole, storage>>

\* login(newToken): decode first; on a throw nothing is set or stored.
Login(newToken) ==
    LET decoded == JwtDecode(newToken) IN
    IF decoded.ok
    THEN /\ token' = newToken
         /\ userRole' = decoded.role
         /\ storage' = newToken
    ELSE UNCHANGED <<token, userRole, storage>>

\* Mutant of MountEffect: an undecodable stored token is left alone.
MountEffectKeepsInvalid ==
    /\ Running /\ authPhase = "rendered"
    /\ LET decoded == JwtDecode(storage) IN
       IF storage # 0 /\ decoded.ok
       THEN /\ token' = storage
            /\ userRole' = decoded.role
            /\ UNCHANGED <<storage, location>>
       ELSE UNCHANGED <<token, userRole, storage, location>>
    /\ authPhase' = "ready"
    /\ lastOp' = [op |-> "effect", arg |-> storage, before |-> token]
    /\ UNCHANGED <<pageVars, defaultAuth, reqs, path, adminVars, extVars>>

\* useEffect(() => {...}, []): rehydrate from localStorage after the first render.
MountEffect ==
    /\ Running /\ authPhase = "rendered"
    /\ LET decoded == JwtDecode(storage) IN
       IF storage = 0
       THEN UNCHANGED <<token, userRole, storage, location>>
       ELSE IF decoded.ok
       THEN /\ token' = storage
            /\ userRole' = decoded.role
            /\ UNCHANGED <<storage, location>>
       ELSE Logout
    /\ authPhase' = "ready"
    /\ lastOp' = [op |-> "effect", arg |-> storage, before |-> token]
    /\ UNCHANGED <<pageVars, defaultAuth, reqs, path, adminVars, extVars>>

\* LoginForm: the login call succeeded; login(data.access_token), then
\* navigate('/dashboard').
AdminLoginSuccess(t) ==
    /\ Running /\ authPhase = "ready"
    /\ Rendering = Show("LoginPage")
    /\ Login(t)
    /\ path' = "/dashboard"
    /\ lastOp' = [op |-> "login", arg |-> t, before |-> token]
    /\ UNCHANGED <<pageVars, defaultAuth, reqs, location, authPhase, adminVars, extVars>>

\* OperatorLogin: the login call succeeded; login(data.access_token) only.
OperatorLoginSuccess(t) ==
    /\ Running /\ authPhase = "ready"
    /\ Rendering = Show("OperatorLogin")
    /\ Login(t)
    /\ lastOp' = [op |-> "login", arg |-> t, before |-> token]
    /\ UNCHANGED <<pageVars, defaultAuth, reqs, location, authPhase, path, adminVars, extVars>>

\* The logout button of the Sidebar or of the machine selection page.
ClickLogout ==
    /\ Running /\ authPhase = "ready"
    /\ Rendering.kind = "screen" /\ Rendering.to \in LogoutScreens
    /\ Logout
    /\ lastOp' = [op |-> "logout", arg |-> 0, before |-> token]
    /\ UNCHANGED <<pageVars, defaultAuth, reqs, authPhase, path, adminVars, extVars>>

\* window.location.href = '/login' takes effect: the document is loaded anew,
\* all in-memory state is gone and the provider renders from localStorage.
PageLoad ==
    /\ location = "/login"
    /\ location' = "app"
    /\ path' = "/login"
    /\ token' = storage
    /\ userRole' = "null"
    /\ authPhase' = "rendered"
    /\ lastOp' = [op |-> "load", arg |-> storage, before |-> token]
    /\ UNCHANGED <<pageVars, storage, defaultAuth, reqs, adminVars, extVars>>

\* <Navigate to=...>: the router follows the redirect it rendered.
FollowRedirect ==
    /\ Running
    /\ Rendering.kind = "redirect"
    /\ path' = Rendering.to
    /\ UNCHANGED <<pageVars, httpVars, token, userRole, authPhase, lastOp, adminVars, extVars>>

\* The user follows a link or enters a path.
Visit(p) ==
    /\ Running
    /\ p # path
    /\ path' = p
    /\ UNCHANGED <<pageVars, httpVars, token, userRole, authPhase, lastOp, adminVars, extVars>>

\* First mount: useState(localStorage.getItem('accessToken')), role null.
InitAuth ==
    /\ PageInit /\ (\A t \in TaskIds : prereqDone[t])
    /\ storage \in AuthTokens \cup {0}
    /\ defaultAuth = 0 /\ location = "app"
    /\ reqs = [r \in ReqIds |-> NewReq]
    /\ token = storage /\ userRole = "null" /\ authPhase = "rendered"
    /\ path \in Paths
    /\ lastOp = NoOp
    /\ AdminIdle
    /\ ExtIdle

NextAuth ==
    \/ MountEffect
    \/ \E t \in AuthTokens : AdminLoginSuccess(t)
    \/ \E t \in AuthTokens : OperatorLoginSuccess(t)
    \/ ClickLogout
    \/ PageLoad
    \/ FollowRedirect
    \/ \E p \in Paths : Visit(p)

SpecAuth == InitAuth /\ [][NextAuth]_vars

\* ===================================================== the admin list pages
\* The pages with a destructive action: six admin list pages and the operator
\* task page, each with the list (or queue) it shows.
Resources == {"machines", "scheduledTasks", "productionOrders", "downtimeEvents",
              "jobLogs", "users", "machineQueue"}

\* queryKey of the useQuery that reads the page's list.
ReadKey(res) ==
    CASE res = "machines"         -> <<"machines">>
      [] res = "scheduledTasks"   -> <<"scheduledTasks">>
      [] res = "productionOrders" -> <<"productionOrders", "filters">>
      [] res = "downtimeEvents"   -> <<"downtimeEvents">>
      [] res = "jobLogs"          -> <<"jobLogs">>
      [] res = "users"            -> <<"users">>
      [] res = "machineQueue"     -> <<"machineQueue", "machineIdCode">>

\* Mutant of InvalidatedKey: the machines page invalidates another key.
InvalidatedKeyWrong(res) == <<"visibleMachines">>

\* queryKey passed to invalidateQueries when a request of the page succeeds.
InvalidatedKey(res) ==
    CASE res = "machines"         -> <<"machines">>
      [] res = "scheduledTasks"   -> <<"visibleTasks">>
      [] res = "productionOrders" -> <<"visibleOrders">>
      [] res = "downtimeEvents"   -> <<"downtimeEvents">>
      [] res = "jobLogs"          -> <<"jobLogs">>
      [] res = "users"            -> <<"users">>
      [] res = "machineQueue"     -> <<"machineQueue", "machineIdCode">>

\* invalidateQueries({queryKey}) matches every query whose key starts with it.
KeyMatches(key, of) == Len(key) <= Len(of) /\ SubSeq(of, 1, Len(key)) = key

\* The requests a page sends: delete on the admin pages, update as well on the
\* schedule page, cancel on the operator task page.
OpsOf(res) ==
    CASE res = "scheduledTasks" -> {"delete", "update"}
      [] res = "machineQueue"   -> {"cancel"}
      [] OTHER                  -> {"delete"}

\* The requests that need a confirmation prompt.
Destructive == {"delete", "cancel"}

\* The backend's row after a request: a deleted or cancelled row leaves the
\* list, an updated one gets its next revision.
RowAfter(op, rev) == IF op \in Destructive THEN 0 ELSE 2

NewListFetch == [phase |-> "sent", snap |-> [i \in RowIds |-> 0], after |-> acked]

\* The rows are on screen: !isLoading && !isError.
RowsShown == listStatus = "success"

\* The backend answers the list request with its rows.
ListServe ==
    /\ listFetch.phase = "sent"
    /\ listFetch' = [listFetch EXCEPT !.phase = "ok", !.snap = srvRows]
    /\ UNCHANGED <<pageVars, httpVars, authVars, extVars, adminPage, srvRows, list, listStatus,
                   ops, acked, notice, prompt>>

\* The list response reaches the query: data and status are set.
ListApply ==
    /\ listFetch.phase = "ok"
    /\ list' = listFetch.snap
    /\ listStatus' = "success"
    /\ listFetch' = IdleListFetch
    /\ UNCHANGED <<pageVars, httpVars, authVars, extVars, adminPage, srvRows, ops, acked, notice, prompt>>

\* The list request fails: isError, the data is kept.
ListFails ==
    /\ listFetch.phase = "sent"
    /\ listStatus' = "error"
    /\ listFetch' = IdleListFetch
    /\ UNCHANGED <<pageVars, httpVars, authVars, extVars, adminPage, srvRows, list, ops, acked,
                   notice, prompt>>

\* staleTime has passed and the window regains focus, or the page is entered
\* again: the query refetches.
ListRefetch ==
    /\ listFetch.phase = "idle"
    /\ listFetch' = NewListFetch
    /\ UNCHANGED <<pageVars, httpVars, authVars, extVars, adminPage, srvRows, list, listStatus,
                   ops, acked, notice, prompt>>

\* Mutant of HandleDestructive: the request is sent whatever the answer.
HandleDestructiveUnasked(op, id, accepted) ==
    /\ prompt' = IF accepted THEN "accepted" ELSE "declined"
    /\ ops' = ops \cup {[op |-> op, id |-> id, phase |-> "sent"]}

\* handleDelete / the CANCEL button: if (window.confirm(...)) send the request.
HandleDestructive(op, id, accepted) ==
    /\ prompt' = IF accepted THEN "accepted" ELSE "declined"
    /\ IF accepted
       THEN ops' = ops \cup {[op |-> op, id |-> id, phase |-> "sent"]}
       ELSE UNCHANGED ops

\* The Delete button of a row (the CANCEL button of the operator page).
ClickDestructive(op, id, accepted) ==
    /\ RowsShown /\ list[id] # 0
    /\ op \in OpsOf(adminPage) \cap Destructive
    /\ Cardinality(ops) < MaxInFlight
    /\ HandleDestructive(op, id, accepted)
    /\ UNCHANGED <<pageVars, httpVars, authVars, extVars, adminPage, srvRows, list, listStatus,
                   listFetch, acked, notice>>

\* handleEditSubmit of the schedule page: the update is sent without a prompt.
SubmitEdit(id) ==
    /\ RowsShown /\ list[id] # 0
    /\ "update" \in OpsOf(adminPage)
    /\ Cardinality(ops) < MaxInFlight
    /\ ops' = ops \cup {[op |-> "update", id |-> id, phase |-> "sent"]}
    /\ UNCHANGED <<pageVars, httpVars, authVars, extVars, adminPage, srvRows, list, listStatus,
                   listFetch, acked, notice, prompt>>

\* The backend carries the request out on a row it still has.
OpAccept ==
    \E m \in ops :
        /\ m.phase = "sent"
        /\ srvRows[m.id] # 0
        /\ srvRows' = [srvRows EXCEPT ![m.id] = RowAfter(m.op, @)]
        /\ ops' = (ops \ {m}) \cup {[m EXCEPT !.phase = "ok"]}
        /\ UNCHANGED <<pageVars, httpVars, authVars, extVars, adminPage, list, listStatus, listFetch,
                       acked, notice, prompt>>

\* queryClient.invalidateQueries({queryKey: key}): the page's list query, when
\* its key matches, drops the fetch in flight and fetches again.
InvalidateList(key) ==
    IF KeyMatches(key, ReadKey(adminPage))
    THEN listFetch' = [NewListFetch EXCEPT !.after = acked']
    ELSE UNCHANGED listFetch

\* The success response reaches the page: notice, then invalidateQueries.
OpSuccess ==
    \E m \in ops :
        /\ m.phase = "ok"
        /\ ops' = ops \ {m}
        /\ acked' = acked \cup {[op |-> m.op, id |-> m.id]}
        /\ notice' = "success"
        /\ InvalidateList(InvalidatedKey(adminPage))
        /\ UNCHANGED <<pageVars, httpVars, authVars, extVars, adminPage, srvRows, list, listStatus,
                       prompt>>

\* The request is refused or lost: the error notice, nothing is invalidated.
OpError ==
    \E m \in ops :
        /\ m.phase = "sent"
        /\ ops' = ops \ {m}
        /\ notice' = "error"
        /\ UNCHANGED <<pageVars, httpVars, authVars, extVars, adminPage, srvRows, list, listStatus,
                       listFetch, acked, prompt>>

\* An admin page has just been entered: its list is being fetched.
InitAdmin ==
    /\ PageInit /\ (\A t \in TaskIds : prereqDone[t])
    /\ storage = AdminJwt /\ defaultAuth = 0 /\ location = "app"
    /\ reqs = [r \in ReqIds |-> NewReq]
    /\ token = AdminJwt /\ userRole = "admin" /\ authPhase = "ready"
    /\ path = "/machines" /\ lastOp = NoOp
    /\ adminPage \in Resources
    /\ srvRows = [i \in RowIds |-> 1]
    /\ list = [i \in RowIds |-> 0]
    /\ listStatus = "pending"
    /\ listFetch = [phase |-> "sent", snap |-> [i \in RowIds |-> 0], after |-> {}]
    /\ ops = {} /\ acked = {} /\ notice = "none" /\ prompt = "none"
    /\ ExtIdle

NextAdmin ==
    \/ ListServe
    \/ ListApply
    \/ ListFails
    \/ ListRefetch
    \/ \E op \in Destructive, id \in RowIds, accepted \in BOOLEAN :
          ClickDestructive(op, id, accepted)
    \/ \E id \in RowIds : SubmitEdit(id)
    \/ OpAccept
    \/ OpSuccess
    \/ OpError

SpecAdmin == InitAdmin /\ [][NextAdmin]_vars

\* ======================================================= the import modals
\* The pages with an import modal: Machines (ImportMachinesModal), production
\* orders (ImportOrdersModal) and downtime events (ImportDowntimeEventsModal).
ImportPages == {"machines", "productionOrders", "downtimeEvents"}

\* The files a user can pick; "" is no file.
Files == {"", "rows.csv", "notes.txt"}

\* isSubmitting of the machines and downtime modals (set around the await).
isSubmitting == importCall # "none"

\* The key the modal (or the page's onSuccess) invalidates after an import;
\* <<>> where the code invalidates nothing.
ImportInvalidates(res) ==
    CASE res = "productionOrders" -> <<"productionOrders">>
      [] res = "downtimeEvents"   -> <<"downtimeEvents">>
      [] OTHER                    -> <<>>

\* The Import button of the page: the modal is mounted with fresh state.
OpenImport ==
    /\ ~isImportModalOpen
    /\ isImportModalOpen' = TRUE
    /\ file' = "" /\ importError' = ""
    /\ UNCHANGED <<pageVars, httpVars, authVars, saveVars, timeVars, dashVars, adminVars, importCall>>

\* <input type="file"> onChange.
HandleFileChange(f) ==
    /\ isImportModalOpen
    /\ f # "" /\ f # file
    /\ file' = f
    /\ UNCHANGED <<pageVars, httpVars, authVars, saveVars, timeVars, dashVars, adminVars, isImportModalOpen,
                   importError, importCall>>

\* handleSubmit: without a file (or, for orders, with a file whose name ends in
\* none of .csv, .xlsx, .xls) the error line is set and nothing is sent; else
\* the import request goes out.
HandleSubmit ==
    /\ isImportModalOpen
    /\ importCall = "none"
    /\ IF file = ""
       THEN importError' = "select" /\ UNCHANGED importCall
       ELSE IF adminPage = "productionOrders" /\ file # "rows.csv"
       THEN importError' = "unsupported" /\ UNCHANGED importCall
       ELSE importError' = "" /\ importCall' = "sent"
    /\ UNCHANGED <<pageVars, httpVars, authVars, saveVars, timeVars, dashVars, adminVars, isImportModalOpen, file>>

\* The Cancel button: disabled while submitting in the machines modal only.
CancelImport ==
    /\ isImportModalOpen
    /\ adminPage = "machines" => ~isSubmitting
    /\ isImportModalOpen' = FALSE
    /\ file' = "" /\ importError' = ""
    /\ UNCHANGED <<pageVars, httpVars, authVars, saveVars, timeVars, dashVars, adminVars, importCall>>

\* The backend imports the file's rows.
ImportAccept ==
    /\ importCall = "sent"
    /\ importCall' = "ok"
    /\ srvRows' = [i \in RowIds |-> 3]
    /\ UNCHANGED <<pageVars, httpVars, authVars, saveVars, timeVars, dashVars, adminPage, list, listStatus, listFetch,
                   ops, acked, notice, prompt, isImportModalOpen, file, importError>>

\* The backend refuses the file, or the request is lost.
ImportReject ==
    /\ importCall = "sent"
    /\ importCall' = "failed"
    /\ UNCHANGED <<pageVars, httpVars, authVars, saveVars, timeVars, dashVars, adminVars, isImportModalOpen, file,
                   importError>>

\* The import resolved: the alert (machines, orders), the invalidation
\* (orders, downtime events), then onClose().
ImportSucceeds ==
    /\ importCall = "ok"
    /\ importCall' = "none"
    /\ notice' = IF adminPage = "downtimeEvents" THEN notice ELSE "success"
    /\ UNCHANGED acked
    /\ IF ImportInvalidates(adminPage) = <<>>
       THEN UNCHANGED listFetch
       ELSE InvalidateList(ImportInvalidates(adminPage))
    /\ isImportModalOpen' = FALSE
    /\ file' = "" /\ importError' = ""
    /\ UNCHANGED <<pageVars, httpVars, authVars, saveVars, timeVars, dashVars, adminPage, srvRows, list, listStatus,
                   ops, prompt>>

\* The import rejected: setError(detail || 'Failed to import'), on the modal
\* if it is still mounted.
ImportFails ==
    /\ importCall = "failed"
    /\ importCall' = "none"
    /\ importError' = IF isImportModalOpen THEN "failed" ELSE importError
    /\ UNCHANGED <<pageVars, httpVars, authVars, saveVars, timeVars, dashVars, adminVars, isImportModalOpen, file>>

\* A page with an import modal, its list loaded.
InitImport ==
    /\ PageInit /\ (\A t \in TaskIds : prereqDone[t])
    /\ storage = AdminJwt /\ defaultAuth = 0 /\ location = "app"
    /\ reqs = [r \in ReqIds |-> NewReq]
    /\ token = AdminJwt /\ userRole = "admin" /\ authPhase = "ready"
    /\ path = "/machines" /\ lastOp = NoOp
    /\ adminPage \in ImportPages
    /\ srvRows = [i \in RowIds |-> 1]
    /\ list = [i \in RowIds |-> 1]
    /\ listStatus = "success"
    /\ listFetch = IdleListFetch
    /\ ops = {} /\ acked = {} /\ notice = "none" /\ prompt = "none"
    /\ ExtIdle

NextImport ==
    \/ OpenImport
    \/ \E f \in Files : HandleFileChange(f)
    \/ HandleSubmit
    \/ CancelImport
    \/ ImportAccept
    \/ ImportReject
    \/ ImportSucceeds
    \/ ImportFails
    \/ ListServe
    \/ ListApply
    \/ ListFails

SpecImport == InitImport /\ [][NextImport]_vars

\* ============================ the downtime events page and its save modal
\* The list requests for the page's key that are on the network: the one the
\* query waits for, and those a cancelled fetch left behind (the queryFn,
\* getDowntimeEvents, takes no abort signal, so a cancelled fetch's request
\* is not aborted; its response is dropped).
NetFetches == netOrphans + (IF listFetch.phase = "idle" THEN 0 ELSE 1)

\* queryClient.invalidateQueries({queryKey: ['downtimeEvents']}) on the list
\* query with data, given its fetch f and the n orphaned requests: a fetch in
\* flight is cancelled (cancelRefetch defaults to true) and a new one starts.
InvalidateKey(f, n) ==
    [f |-> NewListFetch, n |-> IF f.phase = "idle" THEN n ELSE n + 1]

\* Add Downtime / Edit: the modal opens.
HandleAddEvent ==
    /\ ~isAddModalOpen
    /\ isAddModalOpen' = TRUE
    /\ UNCHANGED <<pageVars, httpVars, authVars, timeVars, dashVars, adminVars, importVars, saveCall, netOrphans>>

\* The modal's Cancel button: reset(); onClose(), which closes the modal and
\* invalidates the list key.
CancelAdd ==
    /\ isAddModalOpen
    /\ netOrphans < MaxInFlight
    /\ isAddModalOpen' = FALSE
    /\ LET r == InvalidateKey(listFetch, netOrphans) IN
       listFetch' = r.f /\ netOrphans' = r.n
    /\ UNCHANGED <<pageVars, httpVars, authVars, timeVars, dashVars, adminPage, srvRows, list, listStatus,
                   ops, acked, notice, prompt, importVars, saveCall>>

\* onSubmit: the create or update request goes out (the submit button is
\* disabled while isSubmitting).
SubmitAdd ==
    /\ isAddModalOpen
    /\ saveCall = "none"
    /\ saveCall' = "sent"
    /\ UNCHANGED <<pageVars, httpVars, authVars, timeVars, dashVars, adminVars, importVars, isAddModalOpen,
                   netOrphans>>

\* The backend stores the event.
SaveAccept ==
    /\ saveCall = "sent"
    /\ saveCall' = "ok"
    /\ srvRows' = [i \in RowIds |-> RowAfter("update", srvRows[i])]
    /\ UNCHANGED <<pageVars, httpVars, authVars, timeVars, dashVars, adminPage, list, listStatus, listFetch,
                   ops, acked, notice, prompt, importVars, isAddModalOpen, netOrphans>>

\* The backend refuses the event, or the request is lost.
SaveReject ==
    /\ saveCall = "sent"
    /\ saveCall' = "failed"
    /\ UNCHANGED <<pageVars, httpVars, authVars, timeVars, dashVars, adminVars, importVars, isAddModalOpen,
                   netOrphans>>

\* onSubmit after the await: toast.success, onSuccess() (close, invalidate),
\* reset(), onClose() (close, invalidate).
SaveSucceeds ==
    /\ saveCall = "ok"
    /\ netOrphans + 1 < MaxInFlight
    /\ saveCall' = "none"
    /\ notice' = "success"
    /\ isAddModalOpen' = FALSE
    /\ LET r1 == InvalidateKey(listFetch, netOrphans)
           r2 == InvalidateKey(r1.f, r1.n) IN
       listFetch' = r2.f /\ netOrphans' = r2.n
    /\ UNCHANGED <<pageVars, httpVars, authVars, timeVars, dashVars, adminPage, srvRows, list, listStatus,
                   ops, acked, prompt, importVars>>

\* onSubmit's catch: toast.error, the modal stays as it is.
SaveFails ==
    /\ saveCall = "failed"
    /\ saveCall' = "none"
    /\ notice' = "error"
    /\ UNCHANGED <<pageVars, httpVars, authVars, timeVars, dashVars, adminPage, srvRows, list, listStatus,
                   listFetch, ops, acked, prompt, importVars, isAddModalOpen, netOrphans>>

\* The response to an orphaned request arrives and is dropped.
OrphanSettles ==
    /\ netOrphans > 0
    /\ netOrphans' = netOrphans - 1
    /\ UNCHANGED <<pageVars, httpVars, authVars, timeVars, dashVars, adminVars, importVars, isAddModalOpen,
                   saveCall>>

\* The downtime events page with its list loaded.
InitCache ==
    /\ PageInit /\ (\A t \in TaskIds : prereqDone[t])
    /\ storage = AdminJwt /\ defaultAuth = 0 /\ location = "app"
    /\ reqs = [r \in ReqIds |-> NewReq]
    /\ token = AdminJwt /\ userRole = "admin" /\ authPhase = "ready"
    /\ path = "/downtime_events" /\ lastOp = NoOp
    /\ adminPage = "downtimeEvents"
    /\ srvRows \in [RowIds -> {0, 1}]
    /\ list = srvRows
    /\ listStatus = "success"
    /\ listFetch = IdleListFetch
    /\ ops = {} /\ acked = {} /\ notice = "none" /\ prompt = "none"
    /\ ExtIdle

NextCache ==
    \/ HandleAddEvent
    \/ CancelAdd
    \/ SubmitAdd
    \/ SaveAccept
    \/ SaveReject
    \/ SaveSucceeds
    \/ SaveFails
    \/ OrphanSettles
    \/ ListServe
    \/ ListApply
    \/ ListFails
    \/ ListRefetch

SpecCache == InitCache /\ [][NextCache]_vars

\* ===================================== the times of a downtime event's form
\* Instants are minutes since day 0, 00:00 UTC. A datetime-local value
\* ("YYYY-MM-DDTHH:mm") is a record [d, h, m]; an ISO string with an offset
\* ("...+05:30", "...Z") is a record [d, h, m, off], off in minutes.

\* Asia/Kolkata is UTC+05:30.
Kolkata == 330

\* The wall-clock times the user types, on NumDays days from day 2 on.
Walls == [d : 2..(1 + NumDays), h : {0, 5, 23}, m : {0, 29, 30, 59}]

\* The viewer's offsets from UTC, in minutes.
Offsets == {-720, -300, 0, 60, 330, 840}

\* Date.UTC(year, month, day, hours, minutes): fields out of range carry over.
DateUTC(d, h, m) == (d * 24 + h) * 60 + m

\* new Date(string): a string without an offset is local time.
NewDate(s, local) ==
    DateUTC(s.d, s.h, s.m) - (IF "off" \in DOMAIN s THEN s.off ELSE local)

\* formatInTimeZone(date, zone, "yyyy-MM-dd'T'HH:mm:ssXXX"), and toISOString()
\* for zone 0: the fields of the instant in the zone, with the zone's offset.
FormatInTimeZone(i, zone) ==
    LET w == i + zone IN
    [d |-> w \div 1440, h |-> (w % 1440) \div 60, m |-> w % 60, off |-> zone]

\* Date.prototype.toLocaleString() in the viewer's zone.
ToLocaleString(i, local) ==
    LET s == FormatInTimeZone(i, local) IN [d |-> s.d, h |-> s.h, m |-> s.m]

\* Mutant of ConvertIstToUtcIso: the half hour of the offset is forgotten.
ConvertIstWholeHours(s) == FormatInTimeZone(DateUTC(s.d, s.h - 5, s.m), 0)

\* convertIstToUtcIso of the API module: the date, hour and minute digits of
\* the string are read as IST, whatever follows them.
ConvertIstToUtcIso(s) == FormatInTimeZone(DateUTC(s.d, s.h - 5, s.m - 30), 0)

\* The user fills the start and end fields of the add form.
TypeTimes(w1, w2) ==
    /\ ~form.isEditing
    /\ event = NoEvent /\ payload = NoEvent
    /\ form.start_time = NoWall
    /\ form' = [form EXCEPT !.start_time = w1, !.end_time = w2]
    /\ UNCHANGED <<pageVars, httpVars, authVars, adminVars, importVars, saveVars, dashVars,
                   tz, payload, event, shown>>

\* handleEditEvent, then the modal's effect: setValue of the first 16
\* characters of the event's start_time and end_time.
HandleEditEvent ==
    /\ form = EmptyForm /\ payload = NoEvent
    /\ event # NoEvent /\ shown.n = event.n
    /\ event.n < MaxSaves
    /\ form' = [isEditing |-> TRUE, initialData |-> event,
                start_time |-> [d |-> event.start.d, h |-> event.start.h, m |-> event.start.m],
                end_time |-> [d |-> event.end.d, h |-> event.end.h, m |-> event.end.m]]
    /\ UNCHANGED <<pageVars, httpVars, authVars, adminVars, importVars, saveVars, dashVars,
                   tz, payload, event, shown>>

\* onSubmit up to the await: the modal's convertIstToUtcIso formats the local
\* time of each field in Asia/Kolkata, then createDowntimeEvent or
\* updateDowntimeEvent converts the result again and sends it.
OnSubmit ==
    /\ form.start_time # NoWall /\ form.end_time # NoWall
    /\ payload = NoEvent
    /\ LET convertedData ==
               [start_time |-> FormatInTimeZone(NewDate(form.start_time, tz.viewer), Kolkata),
                end_time   |-> FormatInTimeZone(NewDate(form.end_time, tz.viewer), Kolkata)]
       IN payload' = [n      |-> form.initialData.n + 1,
                      typed  |-> <<form.start_time, form.end_time>>,
                      loaded |-> <<form.initialData.start, form.initialData.end>>,
                      start  |-> ConvertIstToUtcIso(convertedData.start_time),
                      end    |-> ConvertIstToUtcIso(convertedData.end_time)]
    /\ UNCHANGED <<pageVars, httpVars, authVars, adminVars, importVars, saveVars, dashVars,
                   tz, form, event, shown>>

\* The backend stores the instants and returns them as timestamps with its
\* zone's offset.
StoreEvent ==
    /\ payload # NoEvent /\ event.n < payload.n
    /\ event' = [payload EXCEPT
                    !.start = FormatInTimeZone(NewDate(payload.start, 0), tz.server),
                    !.end   = FormatInTimeZone(NewDate(payload.end, 0), tz.server)]
    /\ UNCHANGED <<pageVars, httpVars, authVars, adminVars, importVars, saveVars, dashVars,
                   tz, form, payload, shown>>

\* onSubmit after the await: onSuccess(), reset(), onClose().
Saved ==
    /\ payload # NoEvent /\ event.n = payload.n
    /\ payload' = NoEvent
    /\ form' = EmptyForm
    /\ UNCHANGED <<pageVars, httpVars, authVars, adminVars, importVars, saveVars, dashVars,
                   tz, event, shown>>

\* The refetched list is rendered: new Date(event.start_time).toLocaleString().
RenderEvent ==
    /\ shown.n # event.n
    /\ shown' = [event EXCEPT
                    !.start = ToLocaleString(NewDate(event.start, tz.viewer), tz.viewer),
                    !.end   = ToLocaleString(NewDate(event.end, tz.viewer), tz.viewer)]
    /\ UNCHANGED <<pageVars, httpVars, authVars, adminVars, importVars, saveVars, dashVars,
                   tz, form, payload, event>>

\* The downtime events page of a viewer, no event yet, the add form open.
InitTime ==
    /\ PageInit /\ (\A t \in TaskIds : prereqDone[t])
    /\ storage = AdminJwt /\ defaultAuth = 0 /\ location = "app"
    /\ reqs = [r \in ReqIds |-> NewReq]
    /\ token = AdminJwt /\ userRole = "admin" /\ authPhase = "ready"
    /\ path = "/downtime_events" /\ lastOp = NoOp
    /\ AdminIdle
    /\ isImportModalOpen = FALSE /\ file = "" /\ importError = "" /\ importCall = "none"
    /\ isAddModalOpen = TRUE /\ saveCall = "none" /\ netOrphans = 0
    /\ tz \in [viewer : Offsets, server : {0, Kolkata}]
    /\ form = EmptyForm /\ payload = NoEvent /\ event = NoEvent /\ shown = NoEvent
    /\ data = NoData /\ kpiMetrics = [utilization |-> 0, jobsInProgress |-> 0]

NextTime ==
    \/ \E w1, w2 \in Walls : TypeTimes(w1, w2)
    \/ HandleEditEvent
    \/ OnSubmit
    \/ StoreEvent
    \/ Saved
    \/ RenderEvent

SpecTime == InitTime /\ [][NextTime]_vars

\* ============================================================ the dashboard
\* The data GET /api/dashboard can return: each machine active or not, each
\* scheduled task with a status and the machine it is assigned to.
DashboardData ==
    [loaded : {TRUE},
     machines : [1..NumMachines -> [is_active : BOOLEAN]],
     scheduledTasks : [1..NumSched ->
                          [status : {"scheduled", "in_progress", "IN_PROGRESS"},
                           assigned_machine : 1..NumMachines]]]

\* Math.round(num / den * 100) for num >= 0, den > 0.
RoundPercent(num, den) == (200 * num + den) \div (2 * den)

\* The useMemo callback: zeros without data; else the utilization and the
\* number of jobs in progress (the KPIs over orders and downtime events are
\* left out).
KpiMetrics(d) ==
    IF ~d.loaded
    THEN [utilization |-> 0, jobsInProgress |-> 0]
    ELSE LET activeMachines == {m \in DOMAIN d.machines : d.machines[m].is_active}
             inProgress == {t \in DOMAIN d.scheduledTasks :
                               ToLowerCase(d.scheduledTasks[t].status) = "in_progress"}
             machinesInProgress ==
                 Cardinality({d.scheduledTasks[t].assigned_machine : t \in inProgress})
         IN [utilization |-> IF Cardinality(activeMachines) > 0
                             THEN RoundPercent(machinesInProgress, Cardinality(activeMachines))
                             ELSE 0,
             jobsInProgress |-> Cardinality(inProgress)]

\* The query delivers data (first load or the one-minute refetch) and the
\* page renders: kpiMetrics is recomputed.
DashboardRender(d) ==
    /\ d # data
    /\ data' = d
    /\ kpiMetrics' = KpiMetrics(d)
    /\ UNCHANGED <<pageVars, httpVars, authVars, adminVars, importVars, saveVars, timeVars>>

\* The dashboard before its first response.
InitDash ==
    /\ PageInit /\ (\A t \in TaskIds : prereqDone[t])
    /\ HttpInit /\ AppIdle

NextDash == \E d \in DashboardData : DashboardRender(d)

SpecDash == InitDash /\ [][NextDash]_vars

\* ============================== the operator page over any queue response
\* The queues the MachineQueue type admits with NumJobs jobs: current_job and
\* next_task_in_sequence are distinct jobs or null, current_job with any task
\* status, waiting_for set only for a next task that is not ready.
MachineQueues ==
    LET Jobs(statuses) == {NoJob} \cup [id : 1..NumJobs, status : statuses]
    IN  {q \in [current_job : Jobs(Statuses \cup {"delayed", "IN_PROGRESS"}),
                next_task_in_sequence : Jobs({"scheduled"}),
                is_next_task_ready : BOOLEAN,
                waiting_for : {NoWaiting, [step_name |-> 1]}] :
            /\ IsNull(q.current_job) \/ q.current_job.id # q.next_task_in_sequence.id
            /\ q.is_next_task_ready => ~IsNull(q.next_task_in_sequence)
            /\ q.waiting_for # NoWaiting =>
                  ~IsNull(q.next_task_in_sequence) /\ ~q.is_next_task_ready}

\* The page right after a queue response was applied.
InitQueue ==
    /\ taskStatus = [t \in TaskIds |-> "scheduled"]
    /\ prereqDone = [t \in TaskIds |-> TRUE]
    /\ queue \in MachineQueues
    /\ hasData = TRUE /\ qStatus = "success" /\ fetch = IdleFetch
    /\ isPending = [k \in Kinds |-> FALSE] /\ msgs = EmptyBag
    /\ isIssueModalOpen = FALSE /\ reason = "" /\ toast = FALSE
    /\ HttpInit /\ AppIdle

NextQueue ==
    \/ ClickPause
    \/ ClickFinish
    \/ ClickCancel
    \/ ClickResume
    \/ ClickStart
    \/ ClickReportIssue

SpecQueue == InitQueue /\ [][NextQueue]_vars

\* ===================================================================== claims
\* What the screen shows of the query.
Displayed ==
    [screen |-> IF Rendered THEN "queue"
                ELSE IF qStatus = "error" THEN "error"
                ELSE IF qStatus = "pending" THEN "loading" ELSE "nodata",
     q |-> IF Rendered THEN queue ELSE EmptyQueue]

\* This step applies the response of a queue fetch.
FetchApplied == fetch.phase \in {"ok", "sent"} /\ fetch'.phase = "idle"

\* This step sends the request m.
Sends(m) == m.phase = "sent" /\ msgs' = msgs (+) SetToBag({m})

\* This step hands the response m to its mutation.
Settles(m) == msgs' = msgs (-) SetToBag({m})

CurrentStatus == IF IsNull(queue.current_job) THEN "" ELSE ToLowerCase(queue.current_job.status)

OfferedCtl(ctl, id) == \E c \in Offered : c.ctl = ctl /\ c.id = id

\* C1: the displayed queue (and the query's data) changes only in a step that
\* applies a queue fetch response; no send or response of an action changes it.
C1_DisplayOnlyByFetch ==
    [][(Displayed' # Displayed \/ queue' # queue) => FetchApplied]_vars

\* C1 witness: the backend accepted a start whose response is still on its way
\* and the page still shows the job as UP NEXT.
C1_Witness ==
    /\ Rendered /\ StatusLine(queue) = "UP NEXT"
    /\ \E m \in BagToSet(msgs) :
          m.kind = "start" /\ m.phase = "ok" /\ m.id = queue.next_task_in_sequence.id

\* C2 as stated: a successful action invalidates the queue at once, and the
\* display after the refetch that follows an accepted START JOB of J shows
\* current_job = J with status in_progress.
C2_Original ==
    [][/\ \A m \in BagToSet(msgs) :
             (m.phase = "ok" /\ Settles(m)) => fetch'.phase = "sent"
       /\ (fetch.afterStart # 0 /\ FetchApplied /\ fetch.phase = "ok")
             => queue'.current_job = [id |-> fetch.afterStart, status |-> "in_progress"]]_vars

\* C2 amended: a successful action invalidates the queue at once (a fresh queue
\* request is out right after the success is handled, whatever the poll timer
\* does); the refetch after an accepted START JOB of J is answered with
\* current_job = J, in_progress, whenever J is still in progress at the backend
\* when it is served, and the display after its response is applied is that answer.
C2_RefetchAfterSuccess ==
    [][/\ \A m \in BagToSet(msgs) :
             (m.phase = "ok" /\ Settles(m)) => fetch' = NewFetch(IF m.ctl = "START JOB" THEN m.id ELSE 0)
       /\ (fetch.afterStart # 0 /\ fetch.phase = "sent" /\ fetch'.phase = "ok"
             /\ taskStatus[fetch.afterStart] = "in_progress")
             => fetch'.snap.current_job = [id |-> fetch.afterStart, status |-> "in_progress"]
       /\ (fetch.afterStart # 0 /\ FetchApplied /\ fetch.phase = "ok")
             => (queue' = fetch.snap /\ Rendered')]_vars

\* C2 witness: the refetch that followed an accepted START JOB of J has been
\* applied and the page shows J IN PROGRESS, before any further poll.
C2_Witness ==
    /\ fetch.afterStart # 0 /\ fetch.phase = "ok"
    /\ fetch.snap.current_job = [id |-> fetch.afterStart, status |-> "in_progress"]

C4_ReportIssueWhileInProgress ==
    (Rendered /\ StatusLine(queue) = "IN PROGRESS")
        => \E c \in Offered : c.kind = "issue" /\ c.id = queue.current_job.id

\* C5: the offered controls follow the transition table, and every start, pause,
\* finish and cancel request is sent by a control offered at that moment, for
\* that control's job id.
C5_Table ==
    Rendered =>
        /\ (IsNull(queue.current_job) /\ ~IsNull(queue.next_task_in_sequence)
              /\ queue.is_next_task_ready)
             => {[ctl |-> c.ctl, kind |-> c.kind, id |-> c.id] : c \in Offered}
                  = {[ctl |-> "START JOB", kind |-> "start", id |-> queue.next_task_in_sequence.id]}
        /\ CurrentStatus = "in_progress"
             => /\ OfferedCtl("PAUSE", queue.current_job.id)
                /\ OfferedCtl("FINISH", queue.current_job.id)
        /\ CurrentStatus \in {"paused", "blocked"}
             => /\ OfferedCtl("RESUME", queue.current_job.id)
                /\ OfferedCtl("CANCEL", queue.current_job.id)
        /\ \A c \in Offered :
             /\ c.kind \in {"pause", "finish"} => CurrentStatus = "in_progress"
             /\ c.ctl \in {"RESUME", "CANCEL"} => CurrentStatus \in {"paused", "blocked"}
             /\ c.kind = "cancel" => c.ctl = "CANCEL"
             /\ c.ctl = "PAUSE" <=> c.kind = "pause"
             /\ c.ctl = "FINISH" <=> c.kind = "finish"

C5_Sends ==
    \A m \in BagToSet(msgs') :
        (Sends(m) /\ m.kind # "issue")
            => \E c \in Offered : c.ctl = m.ctl /\ c.kind = m.kind /\ c.id = m.id /\ ~c.disabled

C5_ControlsFollowTable == []C5_Table /\ [][C5_Sends]_vars

\* C5 witness: the page shows PAUSED and the RESUME of the paused job is out.
C5_Witness ==
    /\ Rendered /\ CurrentStatus = "paused"
    /\ \E m \in BagToSet(msgs) :
          m.ctl = "RESUME" /\ m.kind = "start" /\ m.id = queue.current_job.id /\ m.phase = "sent"

C7_ReportIssueGuard ==
    [][\A m \in BagToSet(msgs') :
          (Sends(m) /\ m.kind = "issue")
             => /\ m.reason \in Reasons
                /\ ~IsNull(queue.current_job)
                /\ m.id = queue.current_job.id
                /\ m.id \in TaskIds]_vars

\* C7 witness: a report-issue request with an enumerated reason is in flight.
C7_Witness ==
    \E m \in BagToSet(msgs) : m.kind = "issue" /\ m.phase = "sent" /\ m.reason \in Reasons

\* C8: at most one request of each kind is in flight, and while one is, every
\* offered control of that kind is disabled.
C8_OneInFlightPerKind ==
    \A k \in Kinds :
        /\ BagCardinality([m \in InFlight(k) |-> msgs[m]]) <= 1
        /\ InFlight(k) # {} => \A c \in Offered : c.kind = k => c.disabled

\* C8 witness: a pause request is outstanding and the PAUSE button, still on
\* screen, is disabled.
C8_Witness ==
    /\ InFlight("pause") # {}
    /\ \E c \in Offered : c.ctl = "PAUSE" /\ c.disabled

\* C9: once the next task is ready at the backend while the page shows WAITING,
\* a later poll brings the page to UP NEXT with the start control offered.
C9_WaitingToUpNext ==
    (Rendered /\ StatusLine(queue) = "WAITING" /\ ServerQueue.is_next_task_ready)
        ~> (/\ Rendered /\ StatusLine(queue) = "UP NEXT"
            /\ OfferedCtl("START JOB", queue.next_task_in_sequence.id))

\* C9 witness: the page shows WAITING, the backend's next task has become ready
\* and the answer to a poll that says so is about to be applied.
C9_Witness ==
    /\ Rendered /\ StatusLine(queue) = "WAITING"
    /\ fetch.phase = "ok" /\ fetch.afterStart = 0
    /\ fetch.snap.is_next_task_ready /\ IsNull(fetch.snap.current_job)

\* A call that is neither the login form's nor a token refresh.
PlainCall(q) == q.url \notin {"", "/api/user/login", "/api/auth/refresh"}

C10_Steps ==
    \A r \in ReqIds :
        (PlainCall(reqs[r]) /\ reqs'[r] # reqs[r]) =>
            /\ (reqs[r].phase = "answered" /\ reqs[r].status = 401 /\ ~reqs[r].retry)
                 => /\ reqs'[r].phase = "refreshing"
                    /\ reqs'[r].refreshes = 1
                    /\ reqs[r].refreshes = 0
            /\ (reqs[r].phase = "refreshed" /\ reqs[r].rtoken # 0)
                 => /\ storage' = reqs[r].rtoken
                    /\ reqs'[r].phase = "sent"
                    /\ reqs'[r].auth = reqs[r].rtoken
                    /\ reqs'[r].sends = 2
            /\ (reqs'[r].phase = "done" /\ reqs[r].rtoken # 0)
                 => /\ reqs[r].phase = "answered"
                    /\ reqs'[r].via = 2
                    /\ reqs[r].status = 200 => reqs'[r].outcome = "data"
                    /\ reqs[r].status = 401 => reqs'[r].outcome = "error401"
                    /\ reqs[r].status \in {0, 500} => reqs'[r].outcome = "error"

\* C10: a 401 on a plain call that has not been retried starts exactly one
\* refresh; when the refresh succeeds the new token is stored, the request is
\* sent a second time with that token, and what the caller receives is the
\* answer to that second sending (its data when it succeeds), never the 401.
C10_RefreshAndReplay ==
    /\ [][C10_Steps]_vars
    /\ [](\A r \in ReqIds : PlainCall(reqs[r]) => (reqs[r].refreshes <= 1 /\ reqs[r].sends <= 2))

\* C10 witness: a plain call got 401, the refresh succeeded, the replay was
\* answered 200 and the caller holds its data; the new token is in storage.
C10_Witness ==
    \E r \in ReqIds :
        /\ PlainCall(reqs[r]) /\ reqs[r].phase = "done"
        /\ reqs[r].refreshes = 1 /\ reqs[r].rtoken # 0 /\ reqs[r].sends = 2
        /\ reqs[r].outcome = "data" /\ reqs[r].via = 2
        /\ storage = reqs[r].rtoken

\* This step is the catch branch of request r: its refresh call has failed.
RefreshFails(r) == reqs[r].phase = "refreshed" /\ reqs[r].rtoken = 0 /\ reqs'[r] # reqs[r]

C11_Steps ==
    \A r \in ReqIds :
        /\ RefreshFails(r)
             => /\ storage' = 0
                /\ location' = "/login"
                /\ reqs'[r].sends = reqs[r].sends
                /\ reqs'[r].phase = "done"
                /\ reqs'[r].outcome = "refreshError"
        /\ reqs[r].outcome = "refreshError"
             => reqs'[r] = reqs[r]

\* C11: when the refresh call made after a 401 fails, the stored token is
\* removed, the browser goes to /login, the original request is not sent again
\* (then or later) and its caller receives a rejection.
C11_RefreshFailure ==
    /\ [][C11_Steps]_vars
    /\ [](\A r \in ReqIds : reqs[r].outcome = "refreshError"
             => (reqs[r].sends = 1 /\ reqs[r].phase = "done" /\ location = "/login"))

\* C11 witness: a stored token was in use, the refresh failed, the token is
\* gone, the browser is at /login and the caller holds the refresh error.
C11_Witness ==
    \E r \in ReqIds :
        /\ reqs[r].phase = "done" /\ reqs[r].outcome = "refreshError"
        /\ reqs[r].auth # 0 /\ reqs[r].sends = 1
        /\ storage = 0 /\ location = "/login"

\* How far the handling of a request has got; the replay passes through
\* "sent" and "answered" a second time.
Rank(q) ==
    CASE q.phase = "new"        -> 0
      [] q.phase = "sent"       -> IF q.sends = 1 THEN 1 ELSE 5
      [] q.phase = "answered"   -> IF q.sends = 1 THEN 2 ELSE 6
      [] q.phase = "refreshing" -> 3
      [] q.phase = "refreshed"  -> 4
      [] q.phase = "done"       -> 7

C12_Steps ==
    \A r \in ReqIds :
        reqs'[r] # reqs[r] =>
            /\ Rank(reqs'[r]) > Rank(reqs[r])
            /\ (reqs[r].phase = "answered" /\ reqs[r].sends = 2 /\ reqs[r].status = 401)
                 => /\ reqs'[r].phase = "done"
                    /\ reqs'[r].outcome = "error401"
                    /\ reqs'[r].refreshes = reqs[r].refreshes

\* C12: the handling of a request makes at most one refresh call and sends the
\* request at most twice; a 401 on the second sending is rejected to the caller
\* without another refresh; every step of the handling moves it strictly
\* forward through at most seven stages, so it cannot go on for ever.
C12_AtMostOneRefresh ==
    /\ [][C12_Steps]_vars
    /\ [](\A r \in ReqIds : /\ reqs[r].refreshes <= 1
                            /\ reqs[r].sends <= 2
                            /\ reqs[r].sends <= reqs[r].refreshes + 1)

\* C12 witness: the replay of a request was itself answered 401 and the caller
\* holds that error after one refresh and two sendings.
C12_Witness ==
    \E r \in ReqIds :
        /\ reqs[r].phase = "done" /\ reqs[r].outcome = "error401"
        /\ reqs[r].refreshes = 1 /\ reqs[r].sends = 2 /\ reqs[r].via = 2

C13_Steps ==
    \A r \in ReqIds :
        (reqs[r].url = "/api/user/login" /\ reqs[r].phase = "answered"
           /\ reqs[r].status = 401 /\ reqs'[r] # reqs[r])
            => /\ reqs'[r].phase = "done"
               /\ reqs'[r].outcome = "error401"
               /\ reqs'[r].refreshes = 0

\* C13: a 401 answer to the login call is handed to the caller as an ordinary
\* error: no refresh is made for it, and the stored token and the browser's
\* location are never changed on behalf of a login call.
C13_LoginNeverRefreshes ==
    /\ [][C13_Steps]_vars
    /\ [](\A r \in ReqIds : reqs[r].url = "/api/user/login" => reqs[r].refreshes = 0)

\* A token from which no role claim can be decoded.
NoRoleClaim(t) == ~JwtDecode(t).ok \/ JwtDecode(t).role = "undefined"

\* This step is a call of login(t) from one of the two login forms.
LoginCalled(t) == AdminLoginSuccess(t) \/ OperatorLoginSuccess(t)

C14_Steps ==
    \A t \in AuthTokens :
        LoginCalled(t) =>
            IF NoRoleClaim(t)
            THEN /\ ~isAuthenticated'
                 /\ UNCHANGED <<token, userRole, storage>>
            ELSE /\ isAuthenticated'
                 /\ token' = t /\ storage' = t
                 /\ userRole' = JwtDecode(t).role

\* C14: login(t) with a token that carries no decodable role claim leaves the
\* session unauthenticated and the token, the role and the stored token as
\* they were; any other token is stored and authenticates with its role.
C14_LoginNeedsRole == [][C14_Steps]_vars

C15_Steps ==
    (ClickLogout \/ (MountEffect /\ storage # 0 /\ ~JwtDecode(storage).ok))
        => /\ token' = 0
           /\ userRole' = "null"
           /\ storage' = 0
           /\ location' = "/login"

\* C15: after logout(), whether from the logout button or from the mount
\* effect, the token and the role are null, localStorage holds no token and
\* the browser has been told to load /login; that load starts the app afresh
\* at /login without a session.
C15_LogoutClears ==
    /\ [][C15_Steps]_vars
    /\ [][PageLoad => (path' = "/login" /\ ~isAuthenticated' /\ userRole' = "null"
                          /\ authPhase' = "rendered")]_vars
    /\ [](location = "/login" => (token = 0 /\ userRole = "null" /\ storage = 0))

\* C15 witness: an admin session has just been ended by the logout button.
C15_Witness ==
    /\ lastOp.op = "logout" /\ lastOp.before = AdminJwt
    /\ token = 0 /\ userRole = "null" /\ storage = 0 /\ location = "/login"

C16_Steps ==
    MountEffect =>
        /\ lastOp'.op = "effect"
        /\ (storage # 0 /\ JwtDecode(storage).ok)
             => /\ isAuthenticated' /\ token' = storage /\ storage' = storage
                /\ userRole' = JwtDecode(storage).role
                /\ location' = "app"
        /\ (storage # 0 /\ ~JwtDecode(storage).ok)
             => /\ ~isAuthenticated' /\ storage' = 0 /\ location' = "/login"
        /\ storage = 0
             => /\ ~isAuthenticated' /\ ~isAuthenticated /\ storage' = 0
                /\ location' = "app"

\* C16: the mount effect, with no login call, turns a stored token that decodes
\* into an authenticated session with the decoded role; a stored token that
\* does not decode is logged out (unauthenticated, storage empty, /login); with
\* no stored token the session is and stays unauthenticated.
C16_Rehydrate ==
    /\ [][C16_Steps]_vars
    /\ [](authPhase = "rendered" => token = storage)

\* C16 witness: the effect has rehydrated an operator session from storage.
C16_Witness ==
    /\ lastOp.op = "effect" /\ lastOp.arg = OperatorJwt
    /\ isAuthenticated /\ userRole = "operator" /\ authPhase = "ready"

\* C16 second case reached: the effect has logged an undecodable token out.
C16_InvalidReached ==
    /\ lastOp.op = "effect" /\ lastOp.arg = Garbage
    /\ ~isAuthenticated /\ storage = 0 /\ location = "/login"

\* C17: without a session no protected screen is rendered and every path but
\* the two login paths redirects to /login; with a session /login redirects to
\* /dashboard and /operator/login to /operator/select-machine.
C17_Gate ==
    /\ (Rendering.kind = "screen" /\ Rendering.to \in ProtectedScreens) => isAuthenticated
    /\ (~isAuthenticated /\ path \notin {"/login", "/operator/login"})
         => Rendering = Go("/login")
    /\ (isAuthenticated /\ path = "/login") => Rendering = Go("/dashboard")
    /\ (isAuthenticated /\ path = "/operator/login")
         => Rendering = Go("/operator/select-machine")

\* C17 witness: an admin page is asked for in a mounted app without a session,
\* and the router answers with the redirect to /login.
C17_Witness ==
    /\ ~isAuthenticated /\ path = "/machines" /\ Running
    /\ lastOp.op = "effect" /\ lastOp.arg = 0 /\ authPhase = "ready"
    /\ Rendering = Go("/login")

\* This step sends the request m of the admin page.
OpSent(m) == m \in ops' \ ops /\ m.phase = "sent"

\* This step hands the success response of m to the page.
OpAcked(m) == m \in ops /\ m.phase = "ok" /\ m \notin ops'

C18_Steps ==
    /\ \A m \in ops' :
          (OpSent(m) /\ m.op \in Destructive)
              => /\ prompt' = "accepted"
                 /\ ClickDestructive(m.op, m.id, TRUE)
    /\ \A op \in Destructive, id \in RowIds :
          ClickDestructive(op, id, FALSE)
              => /\ prompt' = "declined"
                 /\ UNCHANGED <<pageVars, httpVars, authVars, adminPage, srvRows, list,
                                listStatus, listFetch, ops, acked, notice>>

\* C18: a delete request of an admin page, and the cancel request of the
\* operator page, is sent only in a step whose confirmation prompt was
\* accepted; a declined prompt sends nothing and changes nothing.
C18_ConfirmBeforeDispatch == [][C18_Steps]_vars

\* C18 witness: the prompt of a delete was declined with the row on screen and
\* no request is in flight or was ever answered.
C18_Witness ==
    /\ prompt = "declined" /\ ops = {} /\ acked = {} /\ notice = "none"
    /\ adminPage = "users" /\ RowsShown /\ \E id \in RowIds : list[id] # 0

\* C18, the accepted side: a confirmed delete is on its way.
C18_AcceptedReached ==
    /\ prompt = "accepted" /\ adminPage = "jobLogs"
    /\ \E m \in ops : m.op = "delete" /\ m.phase = "sent"

\* The list shows what request a asked for.
Reflects(a) == IF a.op \in Destructive THEN list[a.id] = 0 ELSE list[a.id] \in {0, 2}

C19_Steps ==
    adminPage = "machines" =>
        /\ \A m \in ops :
              OpAcked(m) => /\ listFetch'.phase = "sent"
                            /\ [op |-> m.op, id |-> m.id] \in listFetch'.after
        /\ (listFetch.phase = "ok" /\ listFetch'.phase = "idle")
              => /\ list' = listFetch.snap
                 /\ \A a \in listFetch.after : list'[a.id] = 0

\* C19: on the machines page the success of a delete invalidates ['machines'],
\* which starts a refetch at once; when the response of a refetch started after
\* the delete is rendered the machine is absent, and until then a machine whose
\* delete succeeded is on screen only while such a refetch is in flight or
\* after the refetch failed.
C19_MachineGone ==
    /\ [][C19_Steps]_vars
    /\ [](adminPage = "machines" =>
            \A a \in acked :
                ~Reflects(a) => \/ listFetch.phase # "idle" /\ a \in listFetch.after
                                \/ listStatus = "error")

\* C19 witness: a machine's delete succeeded, the refetch was rendered and the
\* machine is gone from the list.
C19_Witness ==
    /\ adminPage = "machines" /\ listStatus = "success" /\ listFetch.phase = "idle"
    /\ notice = "success"
    /\ \E a \in acked : a.op = "delete" /\ list[a.id] = 0

C20_Steps ==
    adminPage \in {"scheduledTasks", "productionOrders"} =>
        \A m \in ops :
            OpAcked(m) => /\ KeyMatches(InvalidatedKey(adminPage), ReadKey(adminPage))
                          /\ listFetch'.phase = "sent"
                          /\ [op |-> m.op, id |-> m.id] \in listFetch'.after

\* C20: on the schedule page and on the production-orders page the success of
\* a delete or an update invalidates the key under which the list is read and
\* starts its refetch.
C20_InvalidatesReadKey == [][C20_Steps]_vars

\* C21: a resolved import invalidates the page's list key, so that the list
\* is fetched again, and closes the modal; a rejected import leaves the modal
\* open with its error line set and starts no fetch.
C21_Steps ==
    /\ (importCall = "ok" /\ importCall' = "none") =>
           /\ listFetch'.phase = "sent"
           /\ ~isImportModalOpen'
    /\ (importCall = "failed" /\ importCall' = "none") =>
           /\ isImportModalOpen => (isImportModalOpen' /\ importError' # "")
           /\ UNCHANGED listFetch

C21_ImportInvalidates == [][C21_Steps]_vars

\* C22: at most one list request for the page's key is on the network at any
\* time, also after a save, whose handler invalidates the key twice.
C22_OneFetchPerKey == NetFetches <= 1

C24_ControlsTargetDisplayed ==
    \A c \in Offered : c.id = JobToDisplay(queue).id

\* C25: START JOB is disabled exactly while a start request of the page is
\* outstanding, and by nothing else: not by the refetch that follows a start,
\* so the job can be started a second time before the new queue is shown.
C25_StartFollowsPending ==
    \A c \in Offered :
        c.ctl = "START JOB" => (c.disabled <=> InFlight("start") # {})

\* A start of the task has succeeded and its refetch is still out; the page
\* shows the task as up next and a second start request for it is on its way.
C25_Witness ==
    \E m \in BagToSet(msgs) :
        /\ m.ctl = "START JOB" /\ m.phase = "sent"
        /\ taskStatus[m.id] = "in_progress"
        /\ fetch.phase # "idle" /\ fetch.afterStart = m.id
        /\ Rendered /\ IsNull(queue.current_job)
        /\ queue.next_task_in_sequence.id = m.id

\* The refresh of request r has succeeded and stored its token.
HasRefreshed(r) ==
    /\ reqs[r].refreshes = 1 /\ reqs[r].rtoken # 0
    /\ reqs[r].phase \in {"sent", "answered", "done"}

C26_Steps ==
    \A r \in ReqIds :
        /\ (reqs[r].phase = "answered" /\ ShouldRefresh(reqs[r]) /\ reqs'[r] # reqs[r])
              => /\ reqs'[r].phase = "refreshing"
                 /\ reqs'[r].refreshes = reqs[r].refreshes + 1
        /\ (RefreshFails(r) /\ \E o \in ReqIds \ {r} :
                                  HasRefreshed(o) /\ storage = reqs[o].rtoken)
              => storage' = 0 /\ location' = "/login"

\* C26: every request that gets a first 401 makes a refresh call of its own,
\* whatever the other requests are doing, and a refresh that fails removes the
\* stored token and goes to /login also when the stored token is the new one
\* another request's refresh has just stored.
C26_NoSharedRefresh == [][C26_Steps]_vars

\* Two requests sent with the old token got 401 and each made its refresh
\* call; one refresh stored a new token and replayed with it, the other failed
\* afterwards: the storage is empty and the browser is at /login.
C26_Witness ==
    \E r, o \in ReqIds :
        /\ r # o
        /\ HasRefreshed(o) /\ reqs[o].auth = reqs[o].rtoken
        /\ reqs[r].refreshes = 1 /\ reqs[r].outcome = "refreshError"
        /\ reqs[r].auth # reqs[o].rtoken
        /\ storage = 0 /\ location = "/login"

\* C27: behind the gate, an authenticated session gets the admin layout
\* exactly when its role is admin or manager and the operator routes exactly
\* when its role is operator, never both; with any other role ("user", a
\* missing claim, or null before the role is decoded) it gets neither.
C27_LayoutByRole ==
    (isAuthenticated /\ path \notin {"/login", "/operator/login"}) =>
        LET admin    == Rendering = MainLayout(path)
            operator == Rendering = OperatorLayout(path)
        IN  /\ admin <=> userRole \in {"admin", "manager"}
            /\ operator <=> userRole = "operator"
            /\ ~(admin /\ operator)
            /\ userRole \notin {"admin", "manager", "operator"}
                  => Rendering = Show("blank")

\* A user with the role "user" has logged in and visits an admin page: the
\* protected area is empty.
C27_Witness ==
    /\ isAuthenticated /\ userRole = "user" /\ lastOp.op = "login"
    /\ path = "/machines" /\ Rendering = Show("blank")

\* C28: whatever operations of the AuthProvider have run (the mount effect,
\* login, logout), the token in memory is set exactly when localStorage holds
\* a token, and then the two are the same token.
C28_TokenMirrorsStorage ==
    /\ isAuthenticated <=> storage # 0
    /\ isAuthenticated => token = storage

\* A manager has logged in through the login form: memory and storage hold
\* the manager's token.
C28_Witness ==
    /\ lastOp.op = "login" /\ lastOp.arg = ManagerJwt
    /\ token = ManagerJwt /\ storage = ManagerJwt /\ userRole = "manager"

\* C29: the utilization the dashboard shows is a whole percentage from 0 to
\* 100, and 0 when no machine is active.
C29_UtilizationIsPercent ==
    /\ kpiMetrics.utilization \in 0..100
    /\ (data.loaded /\ \A m \in DOMAIN data.machines : ~data.machines[m].is_active)
          => kpiMetrics.utilization = 0

\* C30: saving the edit form of an event with its time fields untouched sends
\* the instants the event was loaded with, whatever the viewer's offset.
C30_EditKeepsTimes ==
    payload.n > 1 =>
       /\ NewDate(payload.start, 0) = NewDate(payload.loaded[1], 0)
       /\ NewDate(payload.end, 0) = NewDate(payload.loaded[2], 0)

====
